---- MODULE Spec2Model ----
(***************************************************************************)
(* Loss-prevention service: the movement-trigger classifier                *)
(* (app/lossprevention/lib.go), the sensor alias lookup                    *)
(* (pkg/sensor/rsp.go) and the recording orchestrator (pkg/camera).        *)
(*                                                                         *)
(* Ten specifications share the module:                                    *)
(*   Spec            concurrent callers of RecordVideoToDisk               *)
(*   SpecSession     one caller, sessions with detectors and live view     *)
(*   SpecClassifier  HandleDataPayload over bounded batches                *)
(*   SpecSensor      NewRSP / AntennaAlias over bounded sensors            *)
(*   SpecArtifacts   the frame buffer and the background artifact writers  *)
(*   SpecSessionLive one caller without detectors, under weak fairness     *)
(*   SpecSetup       repeated calls of SetupCascadeFiles                   *)
(*   SpecGuard       concurrent callers, running calls weakly fair         *)
(*   SpecRepeat      sessions one after another, with the face detector    *)
(*   SpecPreview     the detection pass, its region crops and overlays     *)
(***************************************************************************)
EXTENDS Integers, Sequences, FiniteSets, TLC

\* ---------------------------------------------------------------- bounds
NumTriggers == 2
MaxCount == 3
MaxFrames == 5
MaxDuration == 2
MaxFaults == 1
MaxBatch == 2
MaxAliases == 2
MaxPort == 11
MaxRounds == 2
MaxStillFrames == 2
MaxRegions == 1
MaxSetups == 3
MaxRepeatFrames == 1
MaxCoord == 1
MaxScale == 2

\* ------------------------------------------------------ program constants
WeightTwo == 1 + 1

cameraSemaphoneSize == 1
SanityFrames == 3

VARIABLES
  cfg,              \* config.AppConfig: fps, duration, liveView, save, enabled
  cascadeFiles,     \* package variable cascadeFiles
  setups,           \* history: the number of calls of SetupCascadeFiles
  cameraSemaphone,  \* weight currently held of cameraSemaphone
  pc,               \* position of every caller of RecordVideoToDisk
  rec,              \* the Recorder of every caller (local to its call)
  ret,              \* what RecordVideoToDisk returned to every caller
  notified,         \* PostNotification calls made by every caller
  frameLog,         \* history: what each iteration of a caller's frame loop did
  seen,             \* history: the highest detection count of each caller's ended session
  sensors,          \* the sensor registry FindByAntennaAlias searches
  payload,          \* the DataPayload's TagEvent slice given to HandleDataPayload
  fired,            \* the tags handed to "go triggerRecord", in order
  examined,         \* history: how many events the loop of HandleDataPayload visited
  handled,          \* whether HandleDataPayload has returned
  round,            \* history: the number of batches delivered so far
  firedEarlier,     \* history: the tags fired for the earlier batches
  rsp,              \* the RSP a sensor operation is applied to
  origin,           \* history: the constructor rsp came from
  port,             \* the antennaId argument of the last AntennaAlias call
  alias,            \* the result of the last AntennaAlias call
  called,           \* whether AntennaAlias has been called on rsp
  loop,             \* the frame loop of a session: i, its phase, the cascades
  frameMat,         \* the content of recorder.frame, the live frame buffer
  copies,           \* the Mats made for the background writers, in order
  outputFolder,     \* the image files of recorder.outputFolder
  scale,            \* config.AppConfig.ImageProcessScale
  pass,             \* the frame loop of a session, seen from its detection pass
  rects,            \* history: what each cascade detected in the frame
  overlays,         \* recorder.overlays
  cropped,          \* history: the regions given to writeFrameRegion for the frame
  drawn             \* history: the overlays the live view drew on the frame

camera ==
  <<cfg, cascadeFiles, setups, cameraSemaphone, pc, rec, ret, notified,
    frameLog, seen>>
classifier ==
  <<sensors, payload, fired, examined, handled, round, firedEarlier>>
sensor == <<rsp, origin, port, alias, called>>
artifacts == <<loop, frameMat, copies, outputFolder>>
preview == <<scale, pass, rects, overlays, cropped, drawn>>
vars == <<camera, classifier, sensor, artifacts, preview>>

\* ------------------------------------------------------ pkg/sensor/rsp.go
DefaultFacility == "DEFAULT_FACILITY"
NoPersonality == "NONE"
Exit == "EXIT"
POS == "POS"
FittingRoom == "FITTING_ROOM"

Digits == <<"0", "1", "2", "3", "4", "5", "6", "7", "8", "9">>

RECURSIVE Itoa(_)
\* strconv.Itoa: the decimal digits of n, a "-" before them when n < 0.
Itoa(n) ==
  IF n < 0 THEN "-" \o Itoa(0 - n)
  ELSE IF n < 10 THEN Digits[n + 1]
  ELSE Itoa(n \div 10) \o Digits[(n % 10) + 1]

\* RSP.AntennaAlias; Aliases is indexed from 0 in the code, from 1 here.
AntennaAliasLastUnset(r, antennaId) ==
  IF Len(r.Aliases) > antennaId + 1
  THEN r.Aliases[antennaId + 1]
  ELSE r.DeviceId \o "-" \o Itoa(antennaId)

AntennaAlias(r, antennaId) ==
  IF Len(r.Aliases) > antennaId
  THEN r.Aliases[antennaId + 1]
  ELSE r.DeviceId \o "-" \o Itoa(antennaId)

NewRSP(deviceId) ==
  LET r == [DeviceId |-> deviceId, FacilityId |-> DefaultFacility,
            Personality |-> NoPersonality, Aliases |-> <<>>]
  IN  [r EXCEPT !.Aliases = <<AntennaAlias(r, 0)>>]

NewRSPFromConfigNotification(deviceId, facilityId, personality, aliases) ==
  [DeviceId |-> deviceId, FacilityId |-> facilityId,
   Personality |-> personality, Aliases |-> aliases]

IsExitSensor(r) == r.Personality = Exit

\* A nil *RSP.
NilRSP ==
  [DeviceId |-> "", FacilityId |-> "", Personality |-> "", Aliases |-> <<>>]

Range(f) == {f[k] : k \in DOMAIN f}

\* FindByAntennaAlias: the registered sensor that has the alias, or nil.
FindByAntennaAlias(registry, location) ==
  IF \E r \in registry : location \in Range(r.Aliases)
  THEN CHOOSE r \in registry : location \in Range(r.Aliases)
  ELSE NilRSP

\* ------------------------------------------- app/lossprevention/lib.go
moved == "moved"

\* The product ids SKUFilterRegex matches, and the EPCs EPCFilterRegex
\* matches, among the ones of the model.
SKUFilter == {"sku1", "sku2"}
EPCFilter == {"epc1", "epc2"}

\* The tests of one loop iteration of HandleDataPayload, in the code's
\* order: TRUE when the iteration ends in a "continue".
SkipsIgnoringPrevious(registry, tag) ==
  \/ tag.event # moved
  \/ Len(tag.locationHistory) < 2
  \/ tag.productId \notin SKUFilter
  \/ tag.epc \notin EPCFilter
  \/ LET r == FindByAntennaAlias(registry, tag.locationHistory[1])
     IN  r = NilRSP \/ ~IsExitSensor(r)

SkipsUnknownPreviousFires(registry, tag) ==
  \/ tag.event # moved
  \/ Len(tag.locationHistory) < 2
  \/ tag.productId \notin SKUFilter
  \/ tag.epc \notin EPCFilter
  \/ LET r == FindByAntennaAlias(registry, tag.locationHistory[1])
     IN  r = NilRSP \/ ~IsExitSensor(r)
  \/ IsExitSensor(FindByAntennaAlias(registry, tag.locationHistory[2]))

Skips(registry, tag) ==
  \/ tag.event # moved
  \/ Len(tag.locationHistory) < 2
  \/ tag.productId \notin SKUFilter
  \/ tag.epc \notin EPCFilter
  \/ LET r == FindByAntennaAlias(registry, tag.locationHistory[1])
     IN  r = NilRSP \/ ~IsExitSensor(r)
  \/ LET r2 == FindByAntennaAlias(registry, tag.locationHistory[2])
     IN  r2 = NilRSP \/ IsExitSensor(r2)

RECURSIVE HandleFrom(_, _, _)
\* The loop of HandleDataPayload from its k-th event on: the tag given to
\* "go triggerRecord" (none or one) and the number of events visited.
HandleFrom(registry, tags, k) ==
  IF k > Len(tags) THEN [fired |-> <<>>, examined |-> Len(tags)]
  ELSE IF Skips(registry, tags[k]) THEN HandleFrom(registry, tags, k + 1)
  ELSE [fired |-> <<tags[k]>>, examined |-> k]

\* ---------------------------------------------------------------- callers
SanityCaller == 0
Triggers == 1..NumTriggers
Callers == {SanityCaller} \cup Triggers

InSession == {"opening", "writer", "loop", "closing", "releasing"}

\* ------------------------------------------------------------- detectors
Categories == <<"face", "profile_face", "upper_body", "full_body", "eye">>

\* SetupCascadeFiles appends one CascadeFile per enabled category, in order.
SetupCascadeFiles(files, enabled) ==
  files \o SelectSeq(Categories, LAMBDA c : c \in enabled)

\* CascadeFile.AsNewCascade: a Cascade of the session, counters at zero.
AsNewCascade(name) ==
  [name |-> name, classifier |-> "open", found |-> 0, written |-> 0]

\* ------------------------------------------------------------- recorder
\* A resource is "nil" (never acquired), "open", "closed", or "closeFault"
\* (its Close was called and failed or panicked).
NoRecorder ==
  [liveView |-> FALSE, frameCount |-> 0, i |-> 0,
   frame |-> "nil", processFrame |-> "nil", webcam |-> "nil",
   writer |-> "nil", window |-> "nil", cascades |-> <<>>,
   closeDeferred |-> FALSE, reads |-> 0, loaded |-> {}]

NewRecorder(liveView) ==
  [NoRecorder EXCEPT !.liveView = liveView,
                     !.frame = "open", !.processFrame = "open",
                     !.window = IF liveView THEN "open" ELSE "nil"]

NoReturn == [recorded |-> FALSE, err |-> "none", via |-> "pending"]

\* The values a function with unnamed results returns after recover().
Recovered == [recorded |-> FALSE, err |-> "none"]

Returned(recorded, err, via) ==
  [recorded |-> recorded, err |-> err, via |-> via]

\* int(math.Round(fps * seconds)) for seconds = num/den >= 0:
\* round half away from zero.
Round(num, den) == (2 * num + den) \div (2 * den)

FrameCount(fps, seconds) == Round(fps * seconds[1], seconds[2])

\* The seconds argument: triggerRecord passes RecordingDuration,
\* SanityCheck passes 3.0 / VideoOutputFps.
SecondsOf(p) ==
  IF p = SanityCaller THEN <<SanityFrames, cfg.fps>> ELSE <<cfg.duration, 1>>

LiveViewOf(p) == IF p = SanityCaller THEN FALSE ELSE cfg.liveView

\* semaphore.Weighted.TryAcquire(1)
TryAcquireAlways(cur) == TRUE

TryAcquire(cur) == cameraSemaphoneSize - cur >= 1

\* ----------------------------------------------------------- Recorder.Open
OpenOutcomes == {"ok", "deviceError", "mkdirError", "panicDevice", "panicGrab"}

RECURSIVE LoadCascades(_, _, _)
\* The load loop of Open: a CascadeFile whose Load fails is skipped.
LoadCascadesCarryOver(files, loadOk, k) ==
  IF k > Len(files) THEN <<>>
  ELSE (IF k \in loadOk
        THEN <<[AsNewCascade(files[k]) EXCEPT
                  !.found = CHOOSE m \in {seen[q] : q \in DOMAIN seen} :
                              \A q \in DOMAIN seen : seen[q] <= m]>>
        ELSE <<>>)
       \o LoadCascades(files, loadOk, k + 1)

LoadCascadesStopAtFailure(files, loadOk, k) ==
  IF k > Len(files) \/ k \notin loadOk THEN <<>>
  ELSE <<AsNewCascade(files[k])>> \o LoadCascades(files, loadOk, k + 1)

LoadCascades(files, loadOk, k) ==
  IF k > Len(files) THEN <<>>
  ELSE (IF k \in loadOk THEN <<AsNewCascade(files[k])>> ELSE <<>>)
       \o LoadCascades(files, loadOk, k + 1)

\* Open's effect on the recorder and the error it returns. A panic inside
\* Open is recovered by Open itself, which then returns a nil error.
\* rec.loaded (history) keeps the files whose Load returned true.
RecorderOpen(r, files, o, loadOk) ==
  LET loaded == [r EXCEPT !.webcam = "open",
                          !.cascades = LoadCascades(files, loadOk, 1),
                          !.loaded = loadOk]
  IN  IF o = "deviceError" THEN [rec |-> r, err |-> "openDevice"]
      ELSE IF o = "panicDevice" THEN [rec |-> r, err |-> "none"]
      ELSE IF o = "mkdirError" THEN [rec |-> loaded, err |-> "mkdir"]
      ELSE [rec |-> loaded, err |-> "none"]

\* ---------------------------------------------------------- Recorder.Close
\* safeClose: a nil Closer has nothing to release (the call on it panics and
\* is recovered); otherwise Close is called, and a panic of it is recovered
\* inside safeClose. "panic" tells whether a panic leaves safeClose.
safeCloseNoRecover(state, fault) ==
  IF state # "open" THEN [state |-> state, panic |-> FALSE]
  ELSE IF fault THEN [state |-> "closeFault", panic |-> TRUE]
  ELSE [state |-> "closed", panic |-> FALSE]

safeClose(state, fault) ==
  IF state # "open" THEN [state |-> state, panic |-> FALSE]
  ELSE IF fault THEN [state |-> "closeFault", panic |-> FALSE]
  ELSE [state |-> "closed", panic |-> FALSE]

\* The resources Close releases, in its order.
CloseSlots(r) ==
  <<[kind |-> "frame", idx |-> 0], [kind |-> "processFrame", idx |-> 0],
    [kind |-> "webcam", idx |-> 0], [kind |-> "writer", idx |-> 0]>>
  \o [k \in 1..Len(r.cascades) |-> [kind |-> "classifier", idx |-> k]]
  \o (IF r.liveView THEN <<[kind |-> "window", idx |-> 0]>> ELSE <<>>)

\* Every resource a Recorder can hold.
AllSlots(r) ==
  {[kind |-> k, idx |-> 0] :
      k \in {"frame", "processFrame", "webcam", "writer", "window"}}
  \cup {[kind |-> "classifier", idx |-> k] : k \in 1..Len(r.cascades)}

SlotState(r, s) ==
  IF s.kind = "frame" THEN r.frame
  ELSE IF s.kind = "processFrame" THEN r.processFrame
  ELSE IF s.kind = "webcam" THEN r.webcam
  ELSE IF s.kind = "writer" THEN r.writer
  ELSE IF s.kind = "window" THEN r.window
  ELSE r.cascades[s.idx].classifier

SetSlot(r, s, v) ==
  IF s.kind = "frame" THEN [r EXCEPT !.frame = v]
  ELSE IF s.kind = "processFrame" THEN [r EXCEPT !.processFrame = v]
  ELSE IF s.kind = "webcam" THEN [r EXCEPT !.webcam = v]
  ELSE IF s.kind = "writer" THEN [r EXCEPT !.writer = v]
  ELSE IF s.kind = "window" THEN [r EXCEPT !.window = v]
  ELSE [r EXCEPT !.cascades[s.idx].classifier = v]

RECURSIVE CloseFrom(_, _, _, _)
\* Close from its k-th safeClose on; a panic that leaves a safeClose is
\* recovered by Close, which then returns at once.
CloseFrom(r, slots, k, faults) ==
  IF k > Len(slots) THEN r
  ELSE LET c == safeClose(SlotState(r, slots[k]), slots[k] \in faults)
           r2 == SetSlot(r, slots[k], c.state)
       IN  IF c.panic THEN r2 ELSE CloseFrom(r2, slots, k + 1, faults)

RecorderClose(r, faults) == CloseFrom(r, CloseSlots(r), 1, faults)

OpenSlots(r) == {s \in AllSlots(r) : SlotState(r, s) = "open"}

\* ------------------------------------------------------------ frame loop
ReadOutcomes == {"frame", "empty", "closed", "panic"}

\* The switch on i: Go runs the first case that matches, and only that one.
Stills(i, frameCount) ==
  IF i = 0 THEN {"frame.first.jpg", "thumb.jpg"}
  ELSE IF i = frameCount \div 2 THEN {"frame.middle.jpg"}
  ELSE IF i = frameCount - 1 THEN {"frame.last.jpg"}
  ELSE {}

\* Whether a Read ends the loop: it returned false (the device is closed)
\* or it panicked.
FatalReadPanicOnly(read) == read = "panic"

FatalRead(read) == read \in {"closed", "panic"}

\* The loop's post statement i++, which runs after a "continue" as well.
NextIndexStuck(i, read) == i

NextIndexRetry(i, read) == IF read = "empty" THEN i ELSE i + 1

NextIndex(i, read) == i + 1

\* Whether a frame with n detections is a new high for cascade c.
NewHighOnTies(c, n) == n > 0 /\ c.found <= n

NewHigh(c, n) == n > 0 /\ c.found < n

\* The file indices writeFrameRegion is called with for n detections.
RegionIndicesFromZero(c, n, save) ==
  IF NewHigh(c, n) /\ save THEN 0..(n - 1) ELSE {}

RegionIndices(c, n, save) ==
  IF NewHigh(c, n) /\ save THEN {k + c.written : k \in 0..(n - 1)} ELSE {}

\* The counters of cascade c after a frame with n detections.
Detect(c, n, save) ==
  IF NewHigh(c, n)
  THEN [c EXCEPT !.found = n,
                 !.written = IF save THEN c.written + n ELSE c.written]
  ELSE c

\* One iteration on a non-empty frame: the detection pass over all cascades,
\* then the live view, where a cancel key closes the window.
ProcessFrameKeepsLiveView(r, counts, save, key, winFault) ==
  LET detected == [r EXCEPT !.cascades =
                     [k \in 1..Len(r.cascades) |->
                        Detect(r.cascades[k], counts[k], save)]]
  IN  IF r.liveView /\ key = "cancel"
      THEN [detected EXCEPT !.window = safeClose(r.window, winFault).state]
      ELSE detected

ProcessFrame(r, counts, save, key, winFault) ==
  LET detected == [r EXCEPT !.cascades =
                     [k \in 1..Len(r.cascades) |->
                        Detect(r.cascades[k], counts[k], save)]]
  IN  IF r.liveView /\ key = "cancel"
      THEN [detected EXCEPT !.liveView = FALSE,
                            !.window = safeClose(r.window, winFault).state]
      ELSE detected

\* What one iteration did (history): the read's outcome, the detection
\* counts, the artifacts handed off, whether the frame was written to the
\* video and shown in the live view, and the key WaitKey returned.
LogEntry(r, kind, counts, save, key) ==
  [i |-> r.i, kind |-> kind, counts |-> counts,
   regions |-> [k \in 1..Len(counts) |->
                  RegionIndices(r.cascades[k], counts[k], save)],
   stills |-> IF kind = "frame" THEN Stills(r.i, r.frameCount) ELSE {},
   video |-> kind = "frame",
   shown |-> kind = "frame" /\ r.liveView,
   key |-> key]

\* ------------------------------------------------------------- actions
\* What a caller does with the result (r): triggerRecord posts one
\* notification when err is nil and recorded is true; SanityCheck posts none.
NotificationsWithoutRecorded(p, r) ==
  IF p # SanityCaller /\ r.err = "none" THEN 1 ELSE 0

Notifications(p, r) ==
  IF p # SanityCaller /\ r.err = "none" /\ r.recorded THEN 1 ELSE 0

\* RecordVideoToDisk up to the TryAcquire (SanityCheck first runs
\* SetupCascadeFiles); a rejected caller returns at once.
EnterRecorderFirst(p) ==
  /\ pc[p] = "idle"
  /\ cascadeFiles' = IF p = SanityCaller
                     THEN SetupCascadeFiles(cascadeFiles, cfg.enabled)
                     ELSE cascadeFiles
  /\ rec' = [rec EXCEPT ![p] = NewRecorder(LiveViewOf(p))]
  /\ IF TryAcquire(cameraSemaphone)
     THEN /\ cameraSemaphone' = cameraSemaphone + 1
          /\ pc' = [pc EXCEPT ![p] = "opening"]
          /\ UNCHANGED <<ret, notified>>
     ELSE /\ ret' = [ret EXCEPT ![p] = Returned(FALSE, "none", "rejected")]
          /\ pc' = [pc EXCEPT ![p] = "finished"]
          /\ notified' = [notified EXCEPT ![p] =
                @ + Notifications(p, Returned(FALSE, "none", "rejected"))]
          /\ UNCHANGED cameraSemaphone
  /\ setups' = IF p = SanityCaller THEN setups + 1 ELSE setups
  /\ UNCHANGED <<cfg, frameLog, seen,
               classifier, sensor, artifacts, preview>>

Enter(p) ==
  /\ pc[p] = "idle"
  /\ cascadeFiles' = IF p = SanityCaller
                     THEN SetupCascadeFiles(cascadeFiles, cfg.enabled)
                     ELSE cascadeFiles
  /\ IF TryAcquire(cameraSemaphone)
     THEN /\ cameraSemaphone' = cameraSemaphone + 1
          /\ rec' = [rec EXCEPT ![p] = NewRecorder(LiveViewOf(p))]
          /\ pc' = [pc EXCEPT ![p] = "opening"]
          /\ UNCHANGED <<ret, notified>>
     ELSE /\ ret' = [ret EXCEPT ![p] = Returned(FALSE, "none", "rejected")]
          /\ pc' = [pc EXCEPT ![p] = "finished"]
          /\ notified' = [notified EXCEPT ![p] =
                @ + Notifications(p, Returned(FALSE, "none", "rejected"))]
          /\ UNCHANGED <<cameraSemaphone, rec>>
  /\ setups' = IF p = SanityCaller THEN setups + 1 ELSE setups
  /\ UNCHANGED <<cfg, frameLog, seen,
               classifier, sensor, artifacts, preview>>

\* Where RecordVideoToDisk goes after recorder.Open(): an error makes it
\* return, and only the deferred Release is left to run.
AfterOpenIgnoresError(err) == "writer"

AfterOpenSkipsRelease(err) == IF err # "none" THEN "finished" ELSE "writer"

AfterOpen(err) == IF err # "none" THEN "releasing" ELSE "writer"

\* recorder.Open() and the check of its error; Close is deferred after it.
Open(p) ==
  /\ pc[p] = "opening"
  /\ \E o \in OpenOutcomes, loadOk \in SUBSET (1..Len(cascadeFiles)) :
       LET res == RecorderOpen(rec[p], cascadeFiles, o, loadOk)
           next == AfterOpen(res.err)
       IN  /\ pc' = [pc EXCEPT ![p] = next]
           /\ rec' = [rec EXCEPT ![p] =
                        [res.rec EXCEPT !.closeDeferred = (next = "writer")]]
           /\ ret' = IF res.err # "none"
                     THEN [ret EXCEPT ![p] = Returned(FALSE, res.err, "error")]
                     ELSE ret
  /\ UNCHANGED <<cfg, cascadeFiles, setups, seen, cameraSemaphone, notified, frameLog,
               classifier, sensor, artifacts, preview>>

\* gocv.VideoWriterFile, the window setup and the frame count.
OpenWriter(p) ==
  /\ pc[p] = "writer"
  /\ \E o \in {"ok", "error", "panic"} :
       IF o = "ok"
       THEN /\ rec' = [rec EXCEPT ![p] =
                         [@ EXCEPT !.writer = "open", !.i = 0,
                                   !.frameCount =
                                      FrameCount(cfg.fps, SecondsOf(p))]]
            /\ pc' = [pc EXCEPT ![p] = "loop"]
            /\ UNCHANGED ret
       ELSE /\ ret' = [ret EXCEPT ![p] =
                         IF o = "error"
                         THEN Returned(FALSE, "writer", "error")
                         ELSE Returned(Recovered.recorded, Recovered.err,
                                       "panic")]
            /\ pc' = [pc EXCEPT ![p] = "closing"]
            /\ UNCHANGED rec
  /\ UNCHANGED <<cfg, cascadeFiles, setups, seen, cameraSemaphone, notified, frameLog,
               classifier, sensor, artifacts, preview>>

\* One iteration of the frame loop. Reading from a webcam that was never
\* opened dereferences nil and panics. rec.reads counts the Read calls;
\* frameLog is the history of the running loop and ends with it.
Frame(p) ==
  /\ pc[p] = "loop"
  /\ rec[p].i < rec[p].frameCount
  /\ \E read \in ReadOutcomes,
        counts \in [1..Len(rec[p].cascades) -> 0..MaxCount],
        key \in {"none", "cancel"}, winFault \in BOOLEAN :
       /\ rec[p].webcam # "open" => read = "panic"
       /\ read # "frame" =>
            /\ counts = [k \in 1..Len(rec[p].cascades) |-> 0]
            /\ key = "none"
       /\ ~(rec[p].liveView /\ key = "cancel") => ~winFault
       /\ ~rec[p].liveView => key = "none"
       /\ IF FatalRead(read)
          THEN /\ ret' = [ret EXCEPT ![p] =
                            IF read = "closed"
                            THEN Returned(FALSE, "read", "error")
                            ELSE Returned(Recovered.recorded, Recovered.err,
                                          "panic")]
               /\ pc' = [pc EXCEPT ![p] = "closing"]
               /\ rec' = [rec EXCEPT ![p].reads = @ + 1]
               /\ frameLog' = [frameLog EXCEPT ![p] = <<>>]
          ELSE IF read = "frame"
          THEN /\ rec' = [rec EXCEPT ![p] =
                    [ProcessFrame(@, counts, cfg.save, key, winFault)
                       EXCEPT !.i = NextIndex(@, read), !.reads = @ + 1]]
               /\ frameLog' = [frameLog EXCEPT ![p] =
                    Append(@, LogEntry(rec[p], read, counts, cfg.save, key))]
               /\ UNCHANGED <<ret, pc>>
          ELSE /\ rec' = [rec EXCEPT ![p].i = NextIndex(@, read),
                                     ![p].reads = @ + 1]
               /\ frameLog' = [frameLog EXCEPT ![p] =
                    Append(@, LogEntry(rec[p], read, <<>>, cfg.save, key))]
               /\ UNCHANGED <<ret, pc>>
  /\ UNCHANGED <<cfg, cascadeFiles, setups, seen, cameraSemaphone, notified,
               classifier, sensor, artifacts, preview>>

\* The loop's exit at i = frameCount: return true, nil.
Finish(p) ==
  /\ pc[p] = "loop"
  /\ rec[p].i >= rec[p].frameCount
  /\ ret' = [ret EXCEPT ![p] = Returned(TRUE, "none", "complete")]
  /\ pc' = [pc EXCEPT ![p] = "closing"]
  /\ frameLog' = [frameLog EXCEPT ![p] = <<>>]
  /\ UNCHANGED <<cfg, cascadeFiles, setups, seen, cameraSemaphone, rec, notified,
               classifier, sensor, artifacts, preview>>

\* The deferred recorder.Close(); at most MaxFaults of its releases fail.
Close(p) ==
  /\ pc[p] = "closing"
  /\ \E faults \in SUBSET OpenSlots(rec[p]) :
       /\ Cardinality(faults) <= MaxFaults
       /\ rec' = [rec EXCEPT ![p] = RecorderClose(@, faults)]
  /\ pc' = [pc EXCEPT ![p] = "releasing"]
  /\ UNCHANGED <<cfg, cascadeFiles, setups, seen, cameraSemaphone, ret, notified, frameLog,
               classifier, sensor, artifacts, preview>>

RECURSIVE HighestFound(_, _)
\* The highest count any of the cascades from the k-th on has recorded.
HighestFound(cascades, k) ==
  IF k > Len(cascades) THEN 0
  ELSE LET rest == HighestFound(cascades, k + 1)
       IN  IF cascades[k].found > rest THEN cascades[k].found ELSE rest

\* The deferred cameraSemaphone.Release(1), the return to the caller and the
\* caller's handling of the result; the Recorder is local to the call, and
\* seen (history) keeps the highest count its cascades recorded.
ReleaseBeforeClose(p) ==
  /\ pc[p] = "closing"
  /\ cameraSemaphone' = cameraSemaphone - 1
  /\ pc' = [pc EXCEPT ![p] = "finished"]
  /\ rec' = [rec EXCEPT ![p] = NoRecorder]
  /\ seen' = [seen EXCEPT ![p] = HighestFound(rec[p].cascades, 1)]
  /\ notified' = [notified EXCEPT ![p] = @ + Notifications(p, ret[p])]
  /\ UNCHANGED <<cfg, cascadeFiles, setups, ret, frameLog,
               classifier, sensor, artifacts, preview>>

Release(p) ==
  /\ pc[p] = "releasing"
  /\ cameraSemaphone' = cameraSemaphone - 1
  /\ pc' = [pc EXCEPT ![p] = "finished"]
  /\ rec' = [rec EXCEPT ![p] = NoRecorder]
  /\ seen' = [seen EXCEPT ![p] = HighestFound(rec[p].cascades, 1)]
  /\ notified' = [notified EXCEPT ![p] = @ + Notifications(p, ret[p])]
  /\ UNCHANGED <<cfg, cascadeFiles, setups, ret, frameLog,
               classifier, sensor, artifacts, preview>>

Next ==
  \E p \in Callers :
    \/ Enter(p)
    \/ Open(p)
    \/ OpenWriter(p)
    \/ Frame(p)
    \/ Finish(p)
    \/ Close(p)
    \/ Release(p)

\* ------------------------------------------- frame buffer and artifacts
\* A Mat's content: the iteration whose Read filled it and what happened to
\* it since ("new": fresh from NewMat, "image": as read, "empty": an empty
\* read, "drawn": the live view drew on it, "closed": after Close).
Mat(seq, state) == [seq |-> seq, state |-> state]

NoMat == Mat(0 - 1, "none")

\* What Clone, Resize and Region(rect).Clone make of a Mat: a Mat of its
\* own holding the whole image, a scaled image of it, or one region of it.
Derive(kind, m) == [kind |-> kind, of |-> m]

NoImage == Derive("none", NoMat)

\* The Mat the background writer gives to IMWrite: the copy it was handed.
WriteSourceLive(c, live) == Derive(c.kind, live)

WriteSource(c, live) == c.mat

\* writeFrame / writeThumb / writeFrameRegion up to the "go" statement: the
\* copy of the frame buffer (live) the background writer gets. "handoff"
\* (history) is the frame buffer at that time and "stale" (history) tells
\* whether the frame buffer had changed since when IMWrite ran; a region
\* write also leaves regionMat, a view on the frame buffer, which is never
\* closed.
NewCopy(file, kind, live) ==
  [file |-> file, kind |-> kind, mat |-> Derive(kind, live),
   handoff |-> live, state |-> "handed", wrote |-> NoImage,
   stale |-> FALSE, closes |-> 0,
   view |-> IF kind = "region" THEN "open" ELSE "none"]

KindOf(file) == IF file = "thumb.jpg" THEN "thumb" ELSE "full"

\* The calls of the switch on i, in the code's order.
StillFiles(i, frameCount) ==
  SelectSeq(<<"frame.first.jpg", "thumb.jpg", "frame.middle.jpg",
              "frame.last.jpg">>,
            LAMBDA f : f \in Stills(i, frameCount))

RegionFile(name, idx) == name \o "." \o Itoa(idx) \o ".jpg"

\* The region files of cascade c for a frame with n detections, in order.
RegionFiles(c, n, save) ==
  IF RegionIndices(c, n, save) = {} THEN <<>>
  ELSE [k \in 1..n |-> RegionFile(c.name, (k - 1) + c.written)]

RECURSIVE AllRegionFiles(_, _, _, _)
AllRegionFiles(cascades, counts, save, k) ==
  IF k > Len(cascades) THEN <<>>
  ELSE RegionFiles(cascades[k], counts[k], save)
       \o AllRegionFiles(cascades, counts, save, k + 1)

\* The copies one iteration on a non-empty frame hands off.
HandOffs(l, counts, save, live) ==
  LET stills == StillFiles(l.i, l.frameCount)
      regions == AllRegionFiles(l.cascades, counts, save, 1)
  IN  [k \in 1..Len(stills) |-> NewCopy(stills[k], KindOf(stills[k]), live)]
      \o [k \in 1..Len(regions) |-> NewCopy(regions[k], "region", live)]

NoLoop ==
  [i |-> 0, frameCount |-> 0, phase |-> "none", cascades |-> <<>>,
   overlays |-> 0]

RECURSIVE Sum(_, _)
Sum(counts, k) == IF k > Len(counts) THEN 0 ELSE counts[k] + Sum(counts, k + 1)

ArtifactsIdle ==
  /\ loop = NoLoop
  /\ frameMat = NoMat
  /\ copies = <<>>
  /\ outputFolder = {}

\* webcam.Read into recorder.frame, then, on a non-empty frame, the stills
\* and the detection pass with their hand-offs.
ReadFrame ==
  /\ loop.phase = "read"
  /\ loop.i < loop.frameCount
  /\ \E read \in {"frame", "empty"},
        counts \in [1..Len(loop.cascades) -> 0..MaxRegions] :
       IF read = "empty"
       THEN /\ frameMat' = Mat(loop.i, "empty")
            /\ loop' = [loop EXCEPT !.i = NextIndex(@, read)]
            /\ UNCHANGED copies
       ELSE /\ frameMat' = Mat(loop.i, "image")
            /\ copies' = copies
                 \o HandOffs(loop, counts, cfg.save, Mat(loop.i, "image"))
            /\ loop' = [loop EXCEPT
                 !.cascades = [k \in 1..Len(loop.cascades) |->
                                 Detect(loop.cascades[k], counts[k], cfg.save)],
                 !.overlays = IF cfg.liveView THEN Sum(counts, 1) ELSE 0,
                 !.phase = IF cfg.liveView THEN "show" ELSE "read",
                 !.i = IF cfg.liveView THEN @ ELSE NextIndex(@, read)]
  /\ UNCHANGED <<outputFolder, camera, classifier, sensor, preview>>

\* The live view of the iteration: the overlays of the frame's detections
\* are drawn on recorder.frame itself, which is then shown (the debug
\* statistics, drawn on it as well, are switched off).
ShowFrame ==
  /\ loop.phase = "show"
  /\ frameMat' = IF loop.overlays > 0
                 THEN Mat(frameMat.seq, "drawn") ELSE frameMat
  /\ loop' = [loop EXCEPT !.phase = "read", !.overlays = 0,
                          !.i = NextIndex(@, "frame")]
  /\ UNCHANGED <<copies, outputFolder, camera, classifier, sensor, preview>>

\* The loop's exit and the deferred Close, which closes recorder.frame.
EndLoop ==
  /\ loop.phase = "read"
  /\ loop.i >= loop.frameCount
  /\ frameMat' = Mat(frameMat.seq, safeClose("open", FALSE).state)
  /\ loop' = [loop EXCEPT !.phase = "closed"]
  /\ UNCHANGED <<copies, outputFolder, camera, classifier, sensor, preview>>

\* The background writer of copy t, which shares nothing with the frame
\* loop but the frame buffer it might read: gocv.IMWrite, which may fail,
\* and then safeClose of the copy.
WriteArtifact(t) ==
  /\ copies[t].state = "handed"
  /\ \E ok \in BOOLEAN :
       LET img == WriteSource(copies[t], frameMat)
       IN  /\ copies' = [copies EXCEPT
                 ![t].state = IF ok THEN "written" ELSE "unwritten",
                 ![t].wrote = img,
                 ![t].stale = (frameMat # copies[t].handoff),
                 ![t].closes = @ + 1]
           /\ outputFolder' =
                IF ok
                THEN {f \in outputFolder : f.file # copies[t].file}
                     \cup {[file |-> copies[t].file, image |-> img]}
                ELSE outputFolder
  /\ UNCHANGED <<loop, frameMat, camera, classifier, sensor, preview>>

\* ------------------------------------------ detection pass and overlays
\* image.Point and image.Rectangle.
Point(x, y) == [X |-> x, Y |-> y]

Rectangle(min, max) == [Min |-> min, Max |-> max]

\* What a classifier can report on the working buffer: unit squares at the
\* points (x, y), x <= y, of a small grid.
Rectangles ==
  {Rectangle(Point(c[1], c[2]), Point(c[1] + 1, c[2] + 1)) :
     c \in {d \in (0..MaxCoord) \X (0..MaxCoord) : d[1] <= d[2]}}

\* transformProcessRect: from the working buffer to the full-size image.
transformProcessRectMaxOnly(rect) ==
  Rectangle(rect.Min,
            Point(rect.Max.X * scale, rect.Max.Y * scale))

transformProcessRect(rect) ==
  Rectangle(Point(rect.Min.X * scale, rect.Min.Y * scale),
            Point(rect.Max.X * scale, rect.Max.Y * scale))

SeqsUpTo(S, n) == UNION {[1..m -> S] : m \in 0..n}

\* The detections of one frame, given in one list and cut at j: all of it
\* is the only cascade's, or the first j are the first cascade's and the
\* rest the second's.
Split(flat, j, n) ==
  [c \in 1..n |->
     IF n = 1 THEN flat
     ELSE IF c = 1 THEN SubSeq(flat, 1, j)
     ELSE IF c = n THEN SubSeq(flat, j + 1, Len(flat))
     ELSE <<>>]

\* The writeFrameRegion calls of cascade c (the k-th of the session) for
\* its detections rs; "cascade" and "rect" (history) name the detection.
Crops(c, k, rs, save) ==
  IF NewHigh(c, Len(rs)) /\ save
  THEN [j \in 1..Len(rs) |->
          [file |-> RegionFile(c.name, (j - 1) + c.written),
           region |-> transformProcessRect(rs[j]),
           cascade |-> k, rect |-> j]]
  ELSE <<>>

\* The FrameOverlays appended for cascade c when liveView is set.
FrameOverlays(c, rs, liveView) ==
  IF liveView
  THEN [j \in 1..Len(rs) |->
          [rect |-> transformProcessRect(rs[j]), drawOptions |-> c.name]]
  ELSE <<>>

RECURSIVE AllCrops(_, _, _, _)
AllCrops(cascades, dets, save, k) ==
  IF k > Len(cascades) THEN <<>>
  ELSE Crops(cascades[k], k, dets[k], save)
       \o AllCrops(cascades, dets, save, k + 1)

RECURSIVE AllOverlays(_, _, _, _)
AllOverlays(cascades, dets, liveView, k) ==
  IF k > Len(cascades) THEN <<>>
  ELSE FrameOverlays(cascades[k], dets[k], liveView)
       \o AllOverlays(cascades, dets, liveView, k + 1)

\* recorder.overlays after the detection pass: reset and refilled only
\* when the session has cascades.
Overlays(old, cascades, dets, liveView) ==
  IF Len(cascades) > 0 THEN AllOverlays(cascades, dets, liveView, 1)
  ELSE old

RECURSIVE Detected(_, _)
\* The number of detections in dets from its k-th cascade on.
Detected(dets, k) ==
  IF k > Len(dets) THEN 0 ELSE Len(dets[k]) + Detected(dets, k + 1)

\* liveViewArg is the liveView parameter of RecordVideoToDisk, liveView is
\* recorder.liveView; "earlier" (history) counts the detections of the
\* frames before the current one.
NoPass ==
  [i |-> 0, frameCount |-> 0, phase |-> "none", liveViewArg |-> FALSE,
   liveView |-> FALSE, cascades |-> <<>>, earlier |-> 0]

NotDrawn == [shown |-> FALSE, overlays |-> <<>>]

PreviewIdle ==
  /\ scale = 1
  /\ pass = NoPass
  /\ rects = <<>>
  /\ overlays = <<>>
  /\ cropped = <<>>
  /\ drawn = NotDrawn

\* One iteration up to the end of the detection pass: the Read, and on a
\* non-empty frame the pass over the cascades with its region writes and
\* its overlays. An empty frame goes on to the next iteration at once.
DetectFrame ==
  /\ pass.phase = "read"
  /\ pass.i < pass.frameCount
  /\ \E read \in {"frame", "empty"},
        flat \in SeqsUpTo(Rectangles, MaxRegions), j \in 0..MaxRegions :
       /\ j <= Len(flat)
       /\ Len(pass.cascades) < 2 => j = 0
       /\ (Len(pass.cascades) = 0 \/ read = "empty") => flat = <<>>
       /\ IF read = "empty"
          THEN /\ pass' = [pass EXCEPT !.i = NextIndex(@, read)]
               /\ UNCHANGED <<rects, overlays, cropped, drawn>>
          ELSE LET dets == Split(flat, j, Len(pass.cascades))
               IN  /\ rects' = dets
                   /\ overlays' = Overlays(overlays, pass.cascades, dets,
                                           pass.liveViewArg)
                   /\ cropped' = AllCrops(pass.cascades, dets, cfg.save, 1)
                   /\ drawn' = NotDrawn
                   /\ pass' = [pass EXCEPT
                        !.cascades = [k \in 1..Len(pass.cascades) |->
                                        Detect(pass.cascades[k],
                                               Len(dets[k]), cfg.save)],
                        !.earlier = @ + Detected(rects, 1),
                        !.phase = "detected"]
  /\ UNCHANGED <<scale, camera, classifier, sensor, artifacts>>

\* The rest of the iteration: with recorder.liveView set, the overlays are
\* drawn and the frame is shown, and a cancel key clears recorder.liveView.
ShowOverlays ==
  /\ pass.phase = "detected"
  /\ \E key \in {"none", "cancel"} :
       /\ ~pass.liveView => key = "none"
       /\ drawn' = IF pass.liveView
                   THEN [shown |-> TRUE, overlays |-> overlays]
                   ELSE NotDrawn
       /\ pass' = [pass EXCEPT
            !.liveView = IF @ /\ key = "cancel" THEN FALSE ELSE @,
            !.i = NextIndex(@, "frame"),
            !.phase = "read"]
  /\ UNCHANGED <<scale, rects, overlays, cropped,
                 camera, classifier, sensor, artifacts>>

\* The loop's exit.
EndPass ==
  /\ pass.phase = "read"
  /\ pass.i >= pass.frameCount
  /\ pass' = [pass EXCEPT !.phase = "closed"]
  /\ UNCHANGED <<scale, rects, overlays, cropped, drawn,
                 camera, classifier, sensor, artifacts>>

\* ------------------------------------------------------- specifications
EnabledChoices == {{}, {"face"}, {"face", "eye"}}

Max(a, b) == IF a > b THEN a ELSE b

\* Configurations whose sessions stay within MaxFrames units of work: a
\* frame costs one unit per detector, and twice that with the live view.
Configs ==
  {c \in [fps : 1..MaxFrames, duration : 1..MaxDuration, liveView : BOOLEAN,
          save : BOOLEAN, enabled : EnabledChoices] :
     c.fps * c.duration * Max(1, Cardinality(c.enabled))
       * (IF c.liveView THEN 2 ELSE 1) <= MaxFrames}

ClassifierIdle ==
  /\ sensors = {}
  /\ payload = <<>>
  /\ fired = <<>>
  /\ examined = 0
  /\ handled = FALSE
  /\ round = 0
  /\ firedEarlier = <<>>

SensorIdle ==
  /\ rsp = NilRSP
  /\ origin = ""
  /\ port = 0
  /\ alias = ""
  /\ called = FALSE

\* Spec: the process at start-up; SanityCheck and every trigger are
\* still to come and may interleave in any way.
Init ==
  /\ cfg \in {c \in Configs : c.enabled = {} /\ ~c.liveView /\ c.save
                               /\ c.fps * c.duration <= 2}
  /\ cascadeFiles = <<>>
  /\ setups = 0
  /\ cameraSemaphone = 0
  /\ pc = [p \in Callers |-> "idle"]
  /\ rec = [p \in Callers |-> NoRecorder]
  /\ ret = [p \in Callers |-> NoReturn]
  /\ notified = [p \in Callers |-> 0]
  /\ frameLog = [p \in Callers |-> <<>>]
  /\ seen = [p \in Callers |-> 0]
  /\ ClassifierIdle
  /\ SensorIdle
  /\ ArtifactsIdle
  /\ PreviewIdle

Spec == Init /\ [][Next]_vars

\* SpecSession: SanityCheck has run at start-up and one trigger arrives.
InitSession ==
  /\ cfg \in Configs
  /\ cascadeFiles = SetupCascadeFiles(<<>>, cfg.enabled)
  /\ setups = 1
  /\ cameraSemaphone = 0
  /\ pc = [p \in Callers |->
             IF p = SanityCaller THEN "finished"
             ELSE IF p = 1 THEN "idle" ELSE "absent"]
  /\ rec = [p \in Callers |-> NoRecorder]
  /\ ret = [p \in Callers |->
              IF p = SanityCaller THEN Returned(TRUE, "none", "complete")
              ELSE NoReturn]
  /\ notified = [p \in Callers |-> 0]
  /\ frameLog = [p \in Callers |-> <<>>]
  /\ seen = [p \in Callers |-> 0]
  /\ ClassifierIdle
  /\ SensorIdle
  /\ ArtifactsIdle
  /\ PreviewIdle

SpecSession == InitSession /\ [][Next]_vars

\* SpecSessionLive: the same with no detector configured, where
\* every call of a session returns: a caller that can take its next step
\* eventually takes it. Whether a trigger arrives at all is left open.
Step(p) ==
  \/ Open(p)
  \/ OpenWriter(p)
  \/ Frame(p)
  \/ Finish(p)
  \/ Close(p)
  \/ Release(p)

Fairness == \A p \in Callers : WF_vars(Step(p))

InitSessionLive == InitSession /\ cfg.enabled = {}

SpecSessionLive == InitSessionLive /\ [][Next]_vars /\ Fairness

\* SpecGuard: Spec with one-frame recordings, where a call that is inside
\* RecordVideoToDisk goes on running; whether and when a caller starts is
\* left open.
InitGuard == Init /\ cfg.fps * cfg.duration = 1

SpecGuard == InitGuard /\ [][Next]_vars /\ Fairness

\* SpecRepeat: SanityCheck has run and the triggers arrive one after another
\* (or at once), every session with the face detector and no live view.
InitRepeat ==
  /\ cfg \in {c \in Configs : c.enabled = {"face"} /\ ~c.liveView
                               /\ c.fps * c.duration <= MaxRepeatFrames}
  /\ cascadeFiles = SetupCascadeFiles(<<>>, cfg.enabled)
  /\ setups = 1
  /\ cameraSemaphone = 0
  /\ pc = [p \in Callers |->
             IF p = SanityCaller THEN "finished" ELSE "idle"]
  /\ rec = [p \in Callers |-> NoRecorder]
  /\ ret = [p \in Callers |->
              IF p = SanityCaller THEN Returned(TRUE, "none", "complete")
              ELSE NoReturn]
  /\ notified = [p \in Callers |-> 0]
  /\ frameLog = [p \in Callers |-> <<>>]
  /\ seen = [p \in Callers |-> 0]
  /\ ClassifierIdle
  /\ SensorIdle
  /\ ArtifactsIdle
  /\ PreviewIdle

SpecRepeat == InitRepeat /\ [][Next]_vars

\* SpecPreview: one session's frame loop, seen from its detection pass.
InitPreview ==
  /\ cfg \in [fps : {MaxStillFrames}, duration : {1}, liveView : BOOLEAN,
              save : BOOLEAN, enabled : EnabledChoices]
  /\ cascadeFiles = SetupCascadeFiles(<<>>, cfg.enabled)
  /\ setups = 1
  /\ cameraSemaphone = 0
  /\ pc = [p \in Callers |-> "absent"]
  /\ rec = [p \in Callers |-> NoRecorder]
  /\ ret = [p \in Callers |-> NoReturn]
  /\ notified = [p \in Callers |-> 0]
  /\ frameLog = [p \in Callers |-> <<>>]
  /\ seen = [p \in Callers |-> 0]
  /\ scale \in 1..MaxScale
  /\ pass = [i |-> 0, phase |-> "read", earlier |-> 0,
             frameCount |-> FrameCount(cfg.fps, <<cfg.duration, 1>>),
             liveViewArg |-> cfg.liveView, liveView |-> cfg.liveView,
             cascades |-> LoadCascades(cascadeFiles,
                                       1..Len(cascadeFiles), 1)]
  /\ rects = <<>>
  /\ overlays = <<>>
  /\ cropped = <<>>
  /\ drawn = NotDrawn
  /\ ClassifierIdle
  /\ SensorIdle
  /\ ArtifactsIdle

NextPreview ==
  \/ DetectFrame
  \/ ShowOverlays
  \/ EndPass

SpecPreview == InitPreview /\ [][NextPreview]_vars

\* SpecClassifier: one batch of tag events is delivered to HandleDataPayload.
ExitRSP == NewRSPFromConfigNotification("RSP-exit", "store", Exit,
                                        <<"exit-0", "exit-1">>)
PosRSP == NewRSPFromConfigNotification("RSP-pos", "store", POS, <<"pos-0">>)

Registry == {ExitRSP, PosRSP, NewRSP("RSP-150009")}

\* Location histories, most recent first; "ghost-0" is no sensor's alias.
Histories ==
  {<<"exit-0">>, <<"exit-0", "pos-0">>, <<"exit-0", "exit-1">>,
   <<"exit-0", "ghost-0">>, <<"pos-0", "exit-0">>, <<"ghost-0", "pos-0">>,
   <<"exit-0", "RSP-150009-0", "exit-1">>}

\* (epc, productId) pairs: two that pass both filters, one that fails the
\* EPC filter and one that fails the SKU filter.
Identities ==
  {<<"epc1", "sku1">>, <<"epc2", "sku2">>, <<"zzz", "sku1">>,
   <<"epc1", "junk">>}

Tags ==
  {[epc |-> id[1], productId |-> id[2], event |-> e, locationHistory |-> h] :
     id \in Identities, e \in {moved, "arrival"}, h \in Histories}

Batches == UNION {[1..n -> Tags] : n \in 0..MaxBatch}

CameraIdle ==
  /\ cfg = [fps |-> 1, duration |-> 1, liveView |-> FALSE, save |-> FALSE,
            enabled |-> {}]
  /\ cascadeFiles = <<>>
  /\ setups = 0
  /\ cameraSemaphone = 0
  /\ pc = [p \in Callers |-> "absent"]
  /\ rec = [p \in Callers |-> NoRecorder]
  /\ ret = [p \in Callers |-> NoReturn]
  /\ notified = [p \in Callers |-> 0]
  /\ frameLog = [p \in Callers |-> <<>>]
  /\ seen = [p \in Callers |-> 0]

InitClassifier ==
  /\ sensors = Registry
  /\ payload \in Batches
  /\ fired = <<>>
  /\ examined = 0
  /\ handled = FALSE
  /\ round = 1
  /\ firedEarlier = <<>>
  /\ CameraIdle
  /\ SensorIdle
  /\ ArtifactsIdle
  /\ PreviewIdle

HandleDataPayload ==
  /\ ~handled
  /\ LET res == HandleFrom(sensors, payload, 1)
     IN  /\ fired' = fired \o res.fired
         /\ examined' = res.examined
  /\ handled' = TRUE
  /\ UNCHANGED <<sensors, payload, round, firedEarlier, camera, sensor, artifacts, preview>>

\* The aliases of the registered sensors whose role is Exit.
ExitAliases(registry) ==
  UNION {Range(r.Aliases) : r \in {x \in registry : IsExitSensor(x)}}

\* The events of a batch whose tag is now at an Exit sensor.
AtExit(registry, tags) ==
  SelectSeq(tags, LAMBDA t :
    IsExitSensor(FindByAntennaAlias(registry, t.locationHistory[1])))

\* The next poll: the tags that are at an Exit sensor linger in its range
\* and are reported as moved to an antenna of an Exit sensor, their history
\* one location longer; the batch is delivered to HandleDataPayload.
Linger ==
  /\ handled
  /\ round < MaxRounds
  /\ \E loc \in ExitAliases(sensors) :
       LET stay == AtExit(sensors, payload)
       IN  payload' =
             [k \in 1..Len(stay) |->
                [stay[k] EXCEPT !.event = moved,
                                !.locationHistory = <<loc>> \o @]]
  /\ firedEarlier' = firedEarlier \o fired
  /\ fired' = <<>>
  /\ examined' = 0
  /\ handled' = FALSE
  /\ round' = round + 1
  /\ UNCHANGED <<sensors, camera, sensor, artifacts, preview>>

NextClassifier == HandleDataPayload \/ Linger

SpecClassifier == InitClassifier /\ [][NextClassifier]_vars

\* SpecSensor: a sensor is built from a configuration notification or by
\* NewRSP, and AntennaAlias is called on it.
DeviceIds == {"RSP-150009", "R2"}
AliasNames == {"A0", "A1", "R2-1"}
AliasLists == UNION {[1..n -> AliasNames] : n \in 0..MaxAliases}

InitSensor ==
  /\ \E d \in DeviceIds, a \in AliasLists :
       rsp = NewRSPFromConfigNotification(d, "store", POS, a)
  /\ origin = "NewRSPFromConfigNotification"
  /\ port = 0
  /\ alias = ""
  /\ called = FALSE
  /\ CameraIdle
  /\ ClassifierIdle
  /\ ArtifactsIdle
  /\ PreviewIdle

CallNewRSP ==
  /\ ~called
  /\ \E d \in DeviceIds : rsp' = NewRSP(d)
  /\ origin' = "NewRSP"
  /\ UNCHANGED <<port, alias, called, camera, classifier, artifacts, preview>>

CallAntennaAlias ==
  /\ \E i \in 0..MaxPort :
       /\ port' = i
       /\ alias' = AntennaAlias(rsp, i)
  /\ called' = TRUE
  /\ UNCHANGED <<rsp, origin, camera, classifier, artifacts, preview>>

NextSensor == CallNewRSP \/ CallAntennaAlias

SpecSensor == InitSensor /\ [][NextSensor]_vars

\* SpecArtifacts: one session's frame loop, seen from its frame buffer, with
\* the background writers running at any time during and after it.
InitArtifacts ==
  /\ cfg \in [fps : 1..MaxStillFrames, duration : {1}, liveView : BOOLEAN,
              save : {TRUE}, enabled : {{}, {"face"}}]
  /\ cascadeFiles = SetupCascadeFiles(<<>>, cfg.enabled)
  /\ setups = 1
  /\ cameraSemaphone = 0
  /\ pc = [p \in Callers |-> "absent"]
  /\ rec = [p \in Callers |-> NoRecorder]
  /\ ret = [p \in Callers |-> NoReturn]
  /\ notified = [p \in Callers |-> 0]
  /\ frameLog = [p \in Callers |-> <<>>]
  /\ seen = [p \in Callers |-> 0]
  /\ loop = [i |-> 0, phase |-> "read", overlays |-> 0,
             frameCount |-> FrameCount(cfg.fps, <<cfg.duration, 1>>),
             cascades |-> LoadCascades(cascadeFiles,
                                       1..Len(cascadeFiles), 1)]
  /\ frameMat = Mat(0, "new")
  /\ copies = <<>>
  /\ outputFolder = {}
  /\ ClassifierIdle
  /\ SensorIdle
  /\ PreviewIdle

NextArtifacts ==
  \/ ReadFrame
  \/ ShowFrame
  \/ EndLoop
  \/ \E t \in DOMAIN copies : WriteArtifact(t)

SpecArtifacts == InitArtifacts /\ [][NextArtifacts]_vars

\* SpecSetup: the detector setup alone, for every choice of the enabled
\* categories; SetupCascadeFiles is exported and may be called again.
InitSetup ==
  /\ cfg \in [fps : {1}, duration : {1}, liveView : {FALSE}, save : {FALSE},
              enabled : SUBSET Range(Categories)]
  /\ cascadeFiles = <<>>
  /\ setups = 0
  /\ cameraSemaphone = 0
  /\ pc = [p \in Callers |-> "absent"]
  /\ rec = [p \in Callers |-> NoRecorder]
  /\ ret = [p \in Callers |-> NoReturn]
  /\ notified = [p \in Callers |-> 0]
  /\ frameLog = [p \in Callers |-> <<>>]
  /\ seen = [p \in Callers |-> 0]
  /\ ClassifierIdle
  /\ SensorIdle
  /\ ArtifactsIdle
  /\ PreviewIdle

CallSetupCascadeFiles ==
  /\ setups < MaxSetups
  /\ cascadeFiles' = SetupCascadeFiles(cascadeFiles, cfg.enabled)
  /\ setups' = setups + 1
  /\ UNCHANGED <<cfg, cameraSemaphone, pc, rec, ret, notified, frameLog, seen,
                 classifier, sensor, artifacts, preview>>

NextSetup == CallSetupCascadeFiles

SpecSetup == InitSetup /\ [][NextSetup]_vars

\* ===================================================================
\* Properties
\* ===================================================================

\* ---- the trigger classifier (SpecClassifier)
\* The claim's own test of one event, stated on the registry.
Matches(tag) ==
  /\ tag.event = "moved"
  /\ Len(tag.locationHistory) >= 2
  /\ tag.productId \in SKUFilter
  /\ tag.epc \in EPCFilter
  /\ \E r \in sensors : /\ tag.locationHistory[1] \in Range(r.Aliases)
                        /\ r.Personality = "EXIT"
  /\ \E r \in sensors : /\ tag.locationHistory[2] \in Range(r.Aliases)
                        /\ r.Personality # "EXIT"

MatchingEvents == {k \in 1..Len(payload) : Matches(payload[k])}

FirstMatch == CHOOSE k \in MatchingEvents : \A j \in MatchingEvents : k <= j

\* C1: for every batch HandleDataPayload fires at most one trigger; it
\* carries the productId and epc of the first event, in batch order, that
\* passes every test, the events after it are not visited, and no trigger
\* fires when no event passes.
C1_FirstMatchFires ==
  handled =>
    /\ Len(fired) <= 1
    /\ MatchingEvents = {} => fired = <<>> /\ examined = Len(payload)
    /\ MatchingEvents # {} =>
         /\ Len(fired) = 1
         /\ fired[1].productId = payload[FirstMatch].productId
         /\ fired[1].epc = payload[FirstMatch].epc
         /\ examined = FirstMatch

C1_Witness ==
  /\ handled
  /\ Len(payload) = 2
  /\ payload[1].locationHistory = <<"exit-0", "exit-1">>
  /\ Matches(payload[2])
  /\ fired = <<payload[2]>>
  /\ fired[1].epc = "epc2"

\* Whether a location is an alias of a registered sensor with / without
\* the Exit role.
AtExitSensor(loc) ==
  \E r \in sensors : loc \in Range(r.Aliases) /\ r.Personality = "EXIT"

AtOtherSensor(loc) ==
  \E r \in sensors : loc \in Range(r.Aliases) /\ r.Personality # "EXIT"

\* C14: a trigger fires only for an event whose previous location is an
\* alias of a registered sensor that is not an Exit sensor, whatever its
\* current location; so the batches of the later polls, in which the tags
\* linger at Exit sensors, fire no trigger.
C14_NoTriggerWhileLingering ==
  /\ \A k \in 1..Len(fired) :
       /\ AtOtherSensor(fired[k].locationHistory[2])
       /\ ~AtExitSensor(fired[k].locationHistory[2])
  /\ handled =>
       \A k \in 1..Len(payload) :
         (/\ Len(payload[k].locationHistory) >= 2
          /\ \/ AtExitSensor(payload[k].locationHistory[2])
             \/ ~AtOtherSensor(payload[k].locationHistory[2]))
         => \A j \in 1..Len(fired) : fired[j] # payload[k]
  /\ round > 1 /\ handled => fired = <<>> /\ examined = Len(payload)

C14_Witness ==
  /\ round = 2
  /\ handled
  /\ Len(firedEarlier) = 1
  /\ Len(payload) = 1
  /\ payload[1].epc = firedEarlier[1].epc
  /\ payload[1].event = "moved"
  /\ payload[1].locationHistory = <<"exit-1", "exit-0", "pos-0">>
  /\ fired = <<>>

\* ---- the single-flight guard (Spec)
\* C2: a call that starts while another caller holds the guard does not
\* wait: its first step is enabled and ends the call with recorded = false
\* and no error, leaves the guard and the holder's session as they were,
\* and the call never enters a session later.
C2_SingleFlight ==
  /\ [](\A p \in Callers : pc[p] = "idle" => ENABLED Enter(p))
  /\ [][\A p \in Callers :
          /\ (pc[p] = "idle" /\ pc'[p] # "idle"
                /\ \E q \in Callers \ {p} : pc[q] \in InSession)
             => /\ pc'[p] = "finished"
                /\ ret'[p] = Returned(FALSE, "none", "rejected")
                /\ cameraSemaphone' = cameraSemaphone
                /\ rec' = rec
                /\ \A q \in Callers \ {p} : pc'[q] = pc[q]
          /\ pc[p] = "finished" => pc'[p] = "finished"]_vars

C2_Witness ==
  \E p \in Triggers, q \in Triggers :
    /\ pc[q] = "loop"
    /\ pc[p] = "finished"
    /\ ret[p] = Returned(FALSE, "none", "rejected")
    /\ rec[p] = NoRecorder

\* C3: in every reachable state at most one caller is past the TryAcquire
\* of the camera guard and before its Release, and the guard holds exactly
\* that caller's weight.
C3_MutualExclusion ==
  /\ Cardinality({p \in Callers : pc[p] \in InSession}) <= 1
  /\ cameraSemaphone = Cardinality({p \in Callers : pc[p] \in InSession})

C3_Witness ==
  /\ pc[SanityCaller] = "loop"
  /\ \A t \in Triggers : pc[t] = "finished" /\ ret[t].via = "rejected"

\* C7: a trigger's caller posts exactly one notification when its call
\* returned recorded = true and none otherwise (rejected, failed, panicked,
\* or still running); SanityCheck posts none.
C7_NotifyOncePerRecording ==
  /\ notified[SanityCaller] = 0
  /\ \A p \in Triggers :
       notified[p] =
         IF pc[p] = "finished" /\ ret[p].recorded THEN 1 ELSE 0

C7_Witness ==
  \E p \in Triggers, q \in Triggers :
    /\ pc[p] = "finished" /\ ret[p].via = "complete" /\ notified[p] = 1
    /\ pc[q] = "finished" /\ ret[q].via = "rejected" /\ notified[q] = 0

\* C8 (as claimed): a call that ended by a recovered panic returns
\* recorded = false together with an error.
C8_PanicReturnsError ==
  \A p \in Callers :
    ret[p].via = "panic" => ~ret[p].recorded /\ ret[p].err # "none"

\* ---- one session (SpecSession)
EmptyReads(log) == Cardinality({k \in 1..Len(log) : log[k].kind = "empty"})

Ended(p) == pc[p] \in {"closing", "releasing"}

\* C4 (as claimed): every session that reached the frame loop performed
\* exactly frameCount reads when it ended.
C4_ExactlyFrameCountReads ==
  \A p \in Triggers :
    Ended(p) /\ rec[p].writer = "open" => rec[p].reads = rec[p].frameCount

\* C4 (amended): frameCount is fps x seconds; in the loop every read so far,
\* empty or not, used one iteration (reads = i); a session that returns
\* recorded = true performed exactly frameCount reads, and one ended by a
\* failed read or a panic performed at most frameCount.
C4_ReadsWithinBudget ==
  \A p \in Triggers :
    /\ pc[p] = "loop" =>
         /\ rec[p].frameCount = cfg.fps * cfg.duration
         /\ rec[p].reads = rec[p].i
         /\ Len(frameLog[p]) = rec[p].i
         /\ rec[p].i <= rec[p].frameCount
    /\ Ended(p) /\ ret[p].via = "complete" =>
         rec[p].reads = rec[p].frameCount
    /\ Ended(p) /\ rec[p].writer = "open" /\ ret[p].via # "complete" =>
         /\ rec[p].reads <= rec[p].frameCount
         /\ rec[p].reads = rec[p].i + 1

C4_Witness ==
  \E p \in Triggers :
    /\ pc[p] = "loop"
    /\ cfg.fps = 2 /\ cfg.duration = 2
    /\ rec[p].i = rec[p].frameCount
    /\ rec[p].reads = 4
    /\ EmptyReads(frameLog[p]) = 3

\* The highest detection count of cascade k in the frames before entry j.
RECURSIVE HighestBefore(_, _, _)
HighestBefore(log, j, k) ==
  IF j <= 1 THEN 0
  ELSE LET h == HighestBefore(log, j - 1, k)
           n == IF log[j - 1].kind = "frame" THEN log[j - 1].counts[k] ELSE 0
       IN  IF n > h THEN n ELSE h

FrameEntries(log) == {j \in 1..Len(log) : log[j].kind = "frame"}

\* C5 (as claimed): region artifacts are written at a frame exactly when
\* its detection count exceeds the highest count of the earlier frames.
C5_WriteIffNewHigh ==
  \A p \in Triggers :
    pc[p] = "loop" =>
      \A j \in FrameEntries(frameLog[p]), k \in 1..Len(rec[p].cascades) :
        (frameLog[p][j].regions[k] # {})
          <=> frameLog[p][j].counts[k] > HighestBefore(frameLog[p], j, k)

\* C5 (amended): with SaveObjectDetectionsToDisk set, region artifacts are
\* written at a frame exactly when its count exceeds the highest count of
\* the earlier frames, and as many as that count; without it none are
\* written; either way found is the highest count so far.
C5_WriteIffNewHighAndSaving ==
  \A p \in Triggers :
    pc[p] = "loop" =>
      /\ \A j \in FrameEntries(frameLog[p]), k \in 1..Len(rec[p].cascades) :
           LET e == frameLog[p][j]
               high == e.counts[k] > HighestBefore(frameLog[p], j, k)
           IN  /\ (e.regions[k] # {}) <=> (cfg.save /\ high)
               /\ e.regions[k] # {} => Cardinality(e.regions[k]) = e.counts[k]
      /\ \A k \in 1..Len(rec[p].cascades) :
           rec[p].cascades[k].found =
             HighestBefore(frameLog[p], Len(frameLog[p]) + 1, k)

C5_Witness ==
  \E p \in Triggers :
    /\ pc[p] = "loop"
    /\ cfg.save
    /\ Len(rec[p].cascades) = 1
    /\ Len(frameLog[p]) = 5
    /\ [j \in 1..5 |-> frameLog[p][j].kind] = [j \in 1..5 |-> "frame"]
    /\ [j \in 1..5 |-> frameLog[p][j].counts[1]] = <<1, 1, 3, 2, 3>>
    /\ {j \in 1..5 : frameLog[p][j].regions[1] # {}} = {1, 3}

\* C9 (as claimed): when Open fails, the capture device and every loaded
\* classifier of the session are released before the call returns.
C9_OpenFailureReleases ==
  \A p \in Callers :
    pc[p] = "releasing" /\ ret[p].err \in {"openDevice", "mkdir"} =>
      /\ rec[p].webcam # "open"
      /\ \A k \in 1..Len(rec[p].cascades) :
           rec[p].cascades[k].classifier # "open"

\* C10: after the deferred Close, whatever the outcome of the session, no
\* resource of the recorder is left untouched: each one is released, or its
\* release was called and failed; and Close leaves the outcome as it was.
C10_CloseReleasesAll ==
  /\ [](\A p \in Callers :
          pc[p] = "releasing" /\ rec[p].closeDeferred =>
            OpenSlots(rec[p]) = {})
  /\ [][\A p \in Callers :
          pc[p] = "closing" /\ pc'[p] = "releasing" => ret'[p] = ret[p]]_vars

C10_Witness ==
  \E p \in Triggers :
    /\ pc[p] = "releasing"
    /\ ret[p].via = "panic"
    /\ rec[p].webcam = "closeFault"
    /\ rec[p].writer = "closed"
    /\ rec[p].frame = "closed"
    /\ Len(rec[p].cascades) = 2
    /\ \A k \in 1..2 : rec[p].cascades[k].classifier = "closed"

\* ---- sensors (SpecSensor)
PortText ==
  <<"0", "1", "2", "3", "4", "5", "6", "7", "8", "9", "10", "11", "12",
    "13", "14">>

\* C6: AntennaAlias(i) is aliases[i] when the sensor has an alias at index
\* i and "{deviceId}-{i}" otherwise; with aliases = ["A0"] port 0 gives "A0"
\* and port 1 the fallback; a sensor built by NewRSP has role NONE, the
\* default facility and "{deviceId}-0" for port 0.
C6_AntennaAlias ==
  /\ called =>
       /\ alias = IF port + 1 \in DOMAIN rsp.Aliases
                  THEN rsp.Aliases[port + 1]
                  ELSE rsp.DeviceId \o "-" \o PortText[port + 1]
       /\ rsp.Aliases = <<"A0">> /\ port = 0 => alias = "A0"
       /\ rsp.Aliases = <<"A0">> /\ port = 1 => alias = rsp.DeviceId \o "-1"
       /\ origin = "NewRSP" /\ port = 0 => alias = rsp.DeviceId \o "-0"
  /\ origin = "NewRSP" =>
       /\ rsp.Personality = "NONE"
       /\ rsp.FacilityId = "DEFAULT_FACILITY"

C6_Witness ==
  /\ called
  /\ rsp.DeviceId = "RSP-150009"
  /\ rsp.Aliases = <<"A0">>
  /\ port = 1
  /\ alias = "RSP-150009-1"

\* ---- the frame loop (SpecSession)
LastEntry(log) == log[Len(log)]

\* C11 (as claimed): a read that fails, other than by a panic, is transient:
\* the loop goes on with the next iteration.
C11_FailedReadIsTransient ==
  [][\A p \in Triggers :
       (pc[p] = "loop" /\ rec'[p].reads = rec[p].reads + 1
          /\ ret'[p].via # "panic")
       => pc'[p] = "loop" /\ rec'[p].i = rec[p].i + 1]_vars

\* C11 (amended): only an empty frame is transient: nothing is written for
\* its iteration, the detectors are left as they were and the loop goes on
\* with i + 1; a Read that returns false (or panics) ends the loop at once,
\* at the same i, and a session ended by a failed Read returns
\* recorded = false with an error.
C11_EmptySkippedFailedReadEnds ==
  /\ [](\A p \in Triggers :
          /\ pc[p] = "loop" =>
               \A j \in 1..Len(frameLog[p]) :
                 LET e == frameLog[p][j]
                 IN  /\ e.kind \in {"frame", "empty"}
                     /\ e.kind = "empty" =>
                          /\ e.stills = {} /\ ~e.video /\ ~e.shown
                          /\ \A k \in DOMAIN e.regions : e.regions[k] = {}
          /\ Ended(p) /\ ret[p].err = "read" =>
               ~ret[p].recorded /\ ret[p].via = "error")
  /\ [][\A p \in Triggers :
          pc[p] = "loop" /\ rec'[p].reads = rec[p].reads + 1 =>
            \/ /\ pc'[p] = "loop"
               /\ rec'[p].i = rec[p].i + 1
               /\ ret'[p] = ret[p]
               /\ LastEntry(frameLog'[p]).i = rec[p].i
               /\ LastEntry(frameLog'[p]).kind = "empty" =>
                    rec'[p].cascades = rec[p].cascades
            \/ /\ pc'[p] = "closing"
               /\ rec'[p].i = rec[p].i
               /\ ret'[p] \in {Returned(FALSE, "read", "error"),
                               Returned(FALSE, "none", "panic")}]_vars

C11_Witness ==
  \E p \in Triggers :
    /\ pc[p] = "loop"
    /\ rec[p].frameCount = 3
    /\ rec[p].i = 3
    /\ [j \in 1..3 |-> frameLog[p][j].kind] = <<"frame", "empty", "frame">>
    /\ frameLog[p][3].stills = {"frame.last.jpg"}
    /\ ENABLED Finish(p)

AllFrames(log) == \A j \in 1..Len(log) : log[j].kind = "frame"

\* C12 (as claimed): in a session of frameCount >= 1 iterations whose reads
\* all gave a non-empty frame, frame.first.jpg and thumb.jpg are handed off
\* at iteration 0, frame.middle.jpg at iteration frameCount / 2 and
\* frame.last.jpg at iteration frameCount - 1, also when these coincide.
C12_AllStillsWritten ==
  \A p \in Triggers :
    (pc[p] = "loop" /\ rec[p].frameCount >= 1
       /\ rec[p].i = rec[p].frameCount /\ AllFrames(frameLog[p]))
    => /\ {"frame.first.jpg", "thumb.jpg"} \subseteq frameLog[p][1].stills
       /\ "frame.middle.jpg"
            \in frameLog[p][(rec[p].frameCount \div 2) + 1].stills
       /\ "frame.last.jpg" \in frameLog[p][rec[p].frameCount].stills

\* The region indices of cascade k used by the entries before entry j.
UsedBefore(log, j, k) ==
  UNION {log[h].regions[k] : h \in FrameEntries(log) \cap 1..(j - 1)}

\* C13: for each detector of a session, the region files of a frame are
\* numbered from written (the number of region files written so far) and
\* written then grows by the frame's count, so no two region writes of the
\* detector use the same index, and written never decreases.
C13_RegionIndicesNeverReused ==
  /\ [](\A p \in Triggers :
          pc[p] = "loop" =>
            \A k \in 1..Len(rec[p].cascades) :
              /\ \A j \in FrameEntries(frameLog[p]) :
                   LET e == frameLog[p][j]
                       before == UsedBefore(frameLog[p], j, k)
                   IN  /\ e.regions[k] \cap before = {}
                       /\ e.regions[k] # {} =>
                            e.regions[k] =
                              {Cardinality(before) + n :
                                 n \in 0..(e.counts[k] - 1)}
              /\ rec[p].cascades[k].written =
                   Cardinality(UsedBefore(frameLog[p],
                                          Len(frameLog[p]) + 1, k)))
  /\ [][\A p \in Triggers :
          pc[p] = "loop" /\ pc'[p] = "loop" =>
            \A k \in 1..Len(rec[p].cascades) :
              /\ rec'[p].cascades[k].written >= rec[p].cascades[k].written
              /\ rec'[p].cascades[k].written # rec[p].cascades[k].written =>
                   rec'[p].cascades[k].written =
                     rec[p].cascades[k].written + rec'[p].cascades[k].found]_vars

C13_Witness ==
  \E p \in Triggers :
    /\ pc[p] = "loop"
    /\ cfg.save
    /\ Len(rec[p].cascades) = 1
    /\ Len(frameLog[p]) = 3
    /\ AllFrames(frameLog[p])
    /\ [j \in 1..3 |-> frameLog[p][j].counts[1]] = <<1, 3, 2>>
    /\ [j \in 1..3 |-> frameLog[p][j].regions[1]] = <<{0}, {1, 2, 3}, {}>>
    /\ rec[p].cascades[1].written = 4

\* The entries of the log at which WaitKey returned a cancel key.
Cancelled(log) == {j \in 1..Len(log) : log[j].key = "cancel"}

\* C16: a cancel key seen in the live view at iteration i ends the live view
\* only: the window is closed, no later frame is shown and no key is polled,
\* while the loop goes on with i + 1, every later frame is still written to
\* the video and hands off its artifacts, and a loop that reaches frameCount
\* returns recorded = true.
C16_CancelEndsPreviewOnly ==
  /\ [](\A p \in Triggers :
          pc[p] = "loop" =>
            \A j \in Cancelled(frameLog[p]) :
              /\ frameLog[p][j].shown
              /\ ~rec[p].liveView
              /\ rec[p].window # "open"
              /\ rec[p].writer = "open"
              /\ \A h \in (j + 1)..Len(frameLog[p]) :
                   LET e == frameLog[p][h]
                   IN  /\ ~e.shown
                       /\ e.key = "none"
                       /\ e.kind = "frame" =>
                            /\ e.video
                            /\ e.stills = Stills(e.i, rec[p].frameCount)
                            /\ cfg.save =>
                                 \A k \in DOMAIN e.counts :
                                   (e.regions[k] # {}) <=>
                                     e.counts[k] >
                                       HighestBefore(frameLog[p], h, k))
  /\ [][\A p \in Triggers :
          /\ (pc[p] = "loop" /\ Len(frameLog'[p]) = Len(frameLog[p]) + 1
                /\ LastEntry(frameLog'[p]).key = "cancel")
             => /\ pc'[p] = "loop"
                /\ ret'[p] = ret[p]
                /\ rec'[p].i = rec[p].i + 1
          /\ (pc[p] = "loop" /\ pc'[p] = "closing"
                /\ rec[p].i >= rec[p].frameCount)
             => ret'[p] = Returned(TRUE, "none", "complete")]_vars

C16_Witness ==
  \E p \in Triggers :
    /\ pc[p] = "loop"
    /\ cfg.liveView
    /\ rec[p].frameCount = 2
    /\ rec[p].i = 2
    /\ AllFrames(frameLog[p])
    /\ frameLog[p][1].key = "cancel" /\ frameLog[p][1].shown
    /\ ~frameLog[p][2].shown
    /\ frameLog[p][2].stills = {"frame.middle.jpg"}
    /\ Len(frameLog[p][2].counts) = 1
    /\ frameLog[p][2].regions[1] # {}
    /\ rec[p].window = "closed"
    /\ ENABLED Finish(p)

\* ---- opening (SpecSession)
ActiveNames(r) == [k \in 1..Len(r.cascades) |-> r.cascades[k].name]

\* The configured detectors whose Load returned true, in configured order.
LoadedNames(r) ==
  SelectSeq(cascadeFiles,
            LAMBDA f : \E k \in r.loaded : cascadeFiles[k] = f)

\* C17: the active detectors of a session are exactly the configured ones
\* whose classifier file loaded, in order; whichever loads fail, all of
\* them included, Open can still succeed and the session go on to the
\* recording, and Open fails only for the device or the output folder.
C17_FailedLoadDropsDetector ==
  /\ [](\A p \in Triggers :
          /\ (pc[p] \in {"writer", "loop"} /\ rec[p].webcam = "open") =>
               /\ ActiveNames(rec[p]) = LoadedNames(rec[p])
               /\ \A k \in 1..Len(rec[p].cascades) :
                    rec[p].cascades[k].classifier = "open"
          /\ pc[p] = "opening" =>
               \A l \in SUBSET (1..Len(cascadeFiles)) :
                 ENABLED (/\ Open(p)
                          /\ rec'[p].loaded = l
                          /\ pc'[p] = "writer"))
  /\ [][\A p \in Triggers :
          pc[p] = "opening" /\ pc'[p] = "releasing" =>
            ret'[p].err \in {"openDevice", "mkdir"}]_vars

C17_Witness ==
  \E p \in Triggers :
    /\ pc[p] = "loop"
    /\ cascadeFiles = <<"face", "eye">>
    /\ rec[p].loaded = {2}
    /\ ActiveNames(rec[p]) = <<"eye">>
    /\ rec[p].i = 1

\* ---- the session's state machine (Spec)
\* The state of the orchestrator for caller p. The video writer is opened
\* in Recording; a call past its Close is still Closing until the guard is
\* released, and one that returns on Open's error is Failed until then.
Phase(position, r) ==
  IF position = "opening" THEN "Opening"
  ELSE IF position \in {"writer", "loop"} THEN "Recording"
  ELSE IF position = "closing" THEN "Closing"
  ELSE IF position = "releasing"
       THEN (IF r.closeDeferred THEN "Closing" ELSE "Failed")
  ELSE "Idle"

Transitions ==
  {<<"Idle", "Opening">>, <<"Opening", "Recording">>,
   <<"Opening", "Failed">>, <<"Recording", "Closing">>,
   <<"Closing", "Idle">>, <<"Failed", "Idle">>}

C20_SessionTerminates ==
  /\ \A p \in Triggers :
       (pc[p] \in InSession) ~>
         (pc[p] = "finished" /\ ret[p].via # "pending"
            /\ cameraSemaphone = 0)
  /\ [](\A p \in Triggers :
          pc[p] = "loop" =>
            rec[p].i <= rec[p].frameCount /\ rec[p].reads = rec[p].i)
  /\ [][\A p \in Triggers :
          (pc[p] = "loop" /\ pc'[p] = "loop" /\ rec'[p] # rec[p])
            => rec'[p].i = rec[p].i + 1]_vars

C20_Witness ==
  \E p \in Triggers :
    /\ pc[p] = "finished"
    /\ ret[p] = Returned(FALSE, "read", "error")
    /\ cfg.fps * cfg.duration = 4
    /\ cameraSemaphone = 0

\* ---- sensors (SpecSensor)
\* C15 (as claimed): the fallback alias AntennaAlias returns for a port
\* without an alias is never one of the aliases configured in the sensor.
C15_FallbackNeverCollides ==
  (called /\ port + 1 \notin DOMAIN rsp.Aliases)
    => alias \notin Range(rsp.Aliases)

\* ---- the background writers (SpecArtifacts)
\* C18: each background write works on a copy made in the frame loop at
\* hand-off: whatever the frame buffer holds when the writer runs (drawn on,
\* overwritten by a later Read, closed), the image given to IMWrite and
\* found in the file is the one derived from the frame buffer at hand-off;
\* and each copy is closed exactly once, after its write, whether the write
\* succeeded or failed.
C18_CloneThenDetach ==
  /\ \A t \in DOMAIN copies :
       LET c == copies[t]
       IN  /\ c.handoff.state = "image"
           /\ c.mat = Derive(c.kind, c.handoff)
           /\ c.state = "handed" => c.wrote = NoImage
           /\ c.state # "handed" => c.wrote = Derive(c.kind, c.handoff)
           /\ c.closes = IF c.state \in {"written", "unwritten"} THEN 1 ELSE 0
  /\ \A f \in outputFolder :
       \E t \in DOMAIN copies :
         /\ copies[t].file = f.file
         /\ copies[t].state = "written"
         /\ f.image = Derive(copies[t].kind, copies[t].handoff)
  /\ \A t \in DOMAIN copies, u \in DOMAIN copies :
       copies[t].file = copies[u].file => t = u

C18_Witness ==
  \E t \in DOMAIN copies, u \in DOMAIN copies :
    /\ copies[t].file = "frame.first.jpg"
    /\ copies[t].state = "written"
    /\ copies[t].handoff = Mat(0, "image")
    /\ copies[t].stale
    /\ frameMat = Mat(1, "drawn")
    /\ [file |-> "frame.first.jpg",
        image |-> Derive("full", Mat(0, "image"))] \in outputFolder
    /\ copies[u].kind = "region"
    /\ copies[u].state = "handed"
    /\ \E v \in DOMAIN copies :
         /\ copies[v].file = "thumb.jpg"
         /\ copies[v].state = "unwritten"
         /\ copies[v].closes = 1
         /\ \A f \in outputFolder : f.file # "thumb.jpg"

\* ---- detector setup (SpecSetup)
\* C21 (as claimed): once SetupCascadeFiles has run, however often, the
\* configured detector list holds one entry for each enabled category and
\* none for a disabled one, in the order face, profile_face, upper_body,
\* full_body, eye.
C21_OneDetectorPerCategory ==
  setups >= 1 =>
    cascadeFiles = SelectSeq(Categories, LAMBDA c : c \in cfg.enabled)

\* ---- counters of a session (SpecRepeat)
\* Sessions that ran to their end before now and saw a detection.
EarlierDetections == {q \in Callers : pc[q] = "finished" /\ seen[q] > 0}

\* C22: when a session's frame loop starts (no Read made yet), every cascade
\* of the session has found = 0 and written = 0, whatever earlier sessions
\* detected; so the first frame of every session with n detections of a
\* cascade is a new high exactly when n > 0, and its region files are
\* numbered 0..n-1.
C22_CountersResetEachSession ==
  \A p \in Callers :
    /\ (pc[p] = "loop" /\ rec[p].reads = 0) =>
         \A k \in 1..Len(rec[p].cascades) :
           rec[p].cascades[k].found = 0 /\ rec[p].cascades[k].written = 0
    /\ (Len(frameLog[p]) >= 1 /\ frameLog[p][1].kind = "frame") =>
         \A k \in 1..Len(frameLog[p][1].counts) :
           frameLog[p][1].regions[k] =
             IF cfg.save THEN 0..(frameLog[p][1].counts[k] - 1) ELSE {}

C22_Witness ==
  \E p \in Callers :
    /\ EarlierDetections # {}
    /\ pc[p] = "loop"
    /\ Len(frameLog[p]) >= 1
    /\ frameLog[p][1].kind = "frame"
    /\ Len(frameLog[p][1].counts) >= 1
    /\ frameLog[p][1].counts[1] > 0
    /\ cfg.save

\* ---- detections in full-size coordinates (SpecPreview)
\* k times a rectangle: each of its four coordinates times k.
Times(k, r) ==
  [Min |-> [X |-> k * r.Min.X, Y |-> k * r.Min.Y],
   Max |-> [X |-> k * r.Max.X, Y |-> k * r.Max.Y]]

RECURSIVE Flatten(_, _)
\* The detections of all cascades from the k-th on, in order.
Flatten(dets, k) ==
  IF k > Len(dets) THEN <<>> ELSE dets[k] \o Flatten(dets, k + 1)

\* The detections of a frame in full-size coordinates, in order.
FullSize(dets) ==
  [j \in 1..Len(Flatten(dets, 1)) |-> Times(scale, Flatten(dets, 1)[j])]

\* C23: transformProcessRect(r) = k * r for every rectangle r, k being
\* ImageProcessScale; after the detection pass of a frame every region
\* given to writeFrameRegion is k times the detection it is cut for, and
\* recorder.overlays holds k times each detection of this frame and nothing
\* else, in a session started with the live view (none is collected in a
\* session started without it); the overlays drawn on a shown frame are
\* exactly those.
C23_DetectionsInFullSizeCoordinates ==
  /\ \A r \in Rectangles : transformProcessRect(r) = Times(scale, r)
  /\ pass.phase = "detected" =>
       /\ \A e \in 1..Len(cropped) :
            cropped[e].region = Times(scale, rects[cropped[e].cascade]
                                                  [cropped[e].rect])
       /\ [j \in 1..Len(overlays) |-> overlays[j].rect]
            = IF pass.liveViewArg THEN FullSize(rects) ELSE <<>>
  /\ drawn.shown =>
       [j \in 1..Len(drawn.overlays) |-> drawn.overlays[j].rect]
         = FullSize(rects)

C23_Witness ==
  /\ pass.phase = "read"
  /\ pass.earlier > 0
  /\ drawn.shown
  /\ Len(drawn.overlays) >= 1
  /\ Len(cropped) >= 1
  /\ scale > 1
  /\ \E j \in 1..Len(drawn.overlays) : drawn.overlays[j].rect.Min.Y > 0

\* ---- release of the guard (SpecGuard)
Holders == {p \in Callers : pc[p] \in InSession}

\* C24: a call that acquired the guard releases it exactly once, when it
\* returns, whichever way it ends (the guard stays as it is while the call
\* is under way, and drops by the call's weight to zero on its return); a
\* rejected call leaves the guard as it is; a call that starts when no
\* session is under way acquires the guard; and a held guard is eventually
\* free again.
C24_GuardReleasedOnEveryExit ==
  /\ [][\A p \in Callers :
          /\ (pc[p] \in InSession /\ pc'[p] \in InSession)
               => cameraSemaphone' = cameraSemaphone
          /\ (pc[p] \in InSession /\ pc'[p] \notin InSession)
               => /\ pc'[p] = "finished"
                  /\ ret'[p].via \in {"complete", "error", "panic"}
                  /\ cameraSemaphone = 1
                  /\ cameraSemaphone' = 0
          /\ (pc[p] = "idle" /\ pc'[p] = "finished")
               => /\ ret'[p].via = "rejected"
                  /\ cameraSemaphone' = cameraSemaphone
          /\ (pc[p] = "idle" /\ pc'[p] # "idle" /\ Holders = {})
               => pc'[p] = "opening" /\ cameraSemaphone' = 1]_vars
  /\ [](Holders = {} => cameraSemaphone = 0)
  /\ (cameraSemaphone > 0) ~> (cameraSemaphone = 0)

C24_Witness ==
  /\ cameraSemaphone = 0
  /\ \E p \in Callers, q \in Callers, r \in Callers :
       /\ pc[p] = "finished" /\ ret[p].via = "panic"
       /\ pc[q] = "finished" /\ ret[q].via = "rejected"
       /\ pc[r] = "finished" /\ ret[r].err = "openDevice"

\* ---- order of the deferred calls (SpecRepeat)
\* C25: a session that passed Opening gives the guard back only after its
\* Close has run to its end: when the guard is released no resource of the
\* recorder is still waiting for its release (each is released, or its
\* release was called and failed), and from the video writer's opening to
\* the end of Close the session holds the guard and no other caller is in
\* a session.
C25_CloseBeforeRelease ==
  /\ [][\A p \in Callers :
          (pc[p] \in InSession /\ pc'[p] \notin InSession
             /\ rec[p].closeDeferred)
            => /\ pc[p] = "releasing"
               /\ OpenSlots(rec[p]) = {}
               /\ cameraSemaphone' = cameraSemaphone - 1]_vars
  /\ [](\A p \in Callers :
          pc[p] \in {"writer", "loop", "closing"} =>
            /\ rec[p].closeDeferred
            /\ cameraSemaphone = 1
            /\ \A q \in Callers \ {p} : pc[q] \notin InSession)

C25_Witness ==
  \E p \in Triggers, q \in Triggers :
    /\ pc[p] = "releasing"
    /\ rec[p].closeDeferred
    /\ rec[p].webcam = "closed"
    /\ rec[p].writer = "closed"
    /\ Len(rec[p].cascades) = 1
    /\ rec[p].cascades[1].classifier = "closed"
    /\ cameraSemaphone = 1
    /\ pc[q] = "finished"
    /\ ret[q].via = "rejected"

\* ---- a rejected start (SpecRepeat)
\* C26: a trigger's call of RecordVideoToDisk that finds the guard taken
\* returns (false, nil) and changes nothing else: no Recorder is made for
\* it (so no device is opened, no output folder made, no classifier
\* loaded), and the guard, the detector files, every other caller's
\* position, Recorder and result, the frame loop under way and the
\* notifications stay as they were.
C26_RejectedStartChangesNothing ==
  /\ [][\A p \in Triggers :
          (pc[p] = "idle" /\ pc'[p] # "idle"
             /\ cameraSemaphone = cameraSemaphoneSize)
            => /\ pc'[p] = "finished"
               /\ ret'[p] = Returned(FALSE, "none", "rejected")
               /\ rec' = rec
               /\ rec[p] = NoRecorder
               /\ cameraSemaphone' = cameraSemaphone
               /\ cascadeFiles' = cascadeFiles
               /\ frameLog' = frameLog
               /\ notified' = notified
               /\ seen' = seen
               /\ \A q \in Callers \ {p} :
                    pc'[q] = pc[q] /\ ret'[q] = ret[q]]_vars
  /\ [](\A p \in Triggers :
          (pc[p] = "finished" /\ ret[p].via = "rejected") =>
            rec[p] = NoRecorder /\ notified[p] = 0)

C26_Witness ==
  \E p \in Triggers, q \in Triggers :
    /\ pc[q] = "loop"
    /\ Len(frameLog[q]) = 1
    /\ Len(rec[q].cascades) = 1
    /\ rec[q].cascades[1].found > 0
    /\ rec[q].webcam = "open"
    /\ pc[p] = "finished"
    /\ ret[p].via = "rejected"
    /\ rec[p] = NoRecorder

====
